---- MODULE Spec2Model ----
(***************************************************************************)
(* The prompt file-handling hook (usePromptFileHandling): the registry of  *)
(* attached files, the per-file upload pipelines (image decode, upload     *)
(* acknowledgement or failure), removal, and the projection to and the     *)
(* restoration from the tool_resources map.                                *)
(***************************************************************************)
EXTENDS Integers, Sequences, FiniteSets, TLC

\* ------------------------------------------------------------------ bounds
\* Size of one run: the files attached (v4() identifiers issued) plus the
\* identifiers restored by loadFromToolResources (a call that restores none
\* counts as one) plus the abortUpload calls.
MaxOps == 2

\* ------------------------------------------------------- values of the code
\* progress is kept in tenths: 0, 0.6 and 1.
Progress0 == 0
Progress06 == 6
Progress1 == 10
\* width / height of a record that has none (undefined).
NoDim == 0
\* Natural size of a decoded image (img.width, img.height).
ImgWidth == 4
ImgHeight == 3

\* tool_resource: undefined
NoTool == "undefined"
\* EToolResources
image_edit == "image_edit"
file_search == "file_search"
\* FileSources
vectordb == "vectordb"
local == "local"
NoSource == "undefined"

\* Strings that name no record (paths, previews) are records of one shape, so
\* that '' (empty), undefined, a stored path and an object URL are all distinct.
EmptyStr == [kind |-> "empty", id |-> "", n |-> 0]
Undefined == [kind |-> "undefined", id |-> "", n |-> 0]
\* The stored path of the file with authoritative identifier id.
PathOf(id) == [kind |-> "path", id |-> id, n |-> 0]
\* The n-th object URL created for identifier id (URL.createObjectURL).
BlobUrl(id, n) == [kind |-> "blob", id |-> id, n |-> n]
\* JavaScript truthiness of a string | undefined.
Truthy(s) == s.kind \notin {"empty", "undefined"}

\* Mime types of the files the user picks.
FileTypes == {"image/png", "text/plain", "application/zip"}
\* type.startsWith('image/')
StartsWithImage(type) == type \in {"image/png", "image/jpeg"}
\* type.includes('text')
IncludesText(type) == type \in {"text/plain", "text/csv"}
\* The toolResource argument of handleFileChange: undefined or a category.
ToolChoices == {NoTool, file_search}
\* The mime types of the files picked with a toolResource argument: images
\* and archives from the plain picker, text files for file search.
TypesFor(tool) ==
  IF tool = NoTool THEN {"image/png", "application/zip"} ELSE {"text/plain"}
\* Categories of a persisted tool_resources map.
Categories == {file_search, image_edit}

\* v4(): the n-th identifier generated on the client.
V4(n) == CASE n = 1 -> "u1" [] n = 2 -> "u2" [] n = 3 -> "u3"
           [] n = 4 -> "u4" [] OTHER -> "u5"
V4Ids == {V4(n) : n \in 1..MaxOps}
\* The identifier the upload service assigns to the upload registered as u.
ServerId(u) == CASE u = "u1" -> "s1" [] u = "u2" -> "s2" [] u = "u3" -> "s3"
                 [] u = "u4" -> "s4" [] OTHER -> "s5"
\* Index of a client identifier.
IndexOf(u) == CHOOSE n \in 1..(MaxOps + 1) : V4(n) = u
\* A file stored by the service before this session (an image), and an
\* identifier that a persisted map lists but the service no longer knows.
OldId == "d1"
UnknownId == "abc"

\* ------------------------------------------------------- Map<string, file>
\* A Map is the sequence of its entries in insertion order.
MapHas(m, k) == \E i \in 1..Len(m) : m[i].key = k

\* Map.prototype.set: replaces the value in place, or appends a new entry.
MapSet(m, k, v) ==
  IF MapHas(m, k)
    THEN [i \in 1..Len(m) |-> IF m[i].key = k THEN [key |-> k, file |-> v] ELSE m[i]]
    ELSE Append(m, [key |-> k, file |-> v])

\* Map.prototype.delete
MapDelete(m, k) == SelectSeq(m, LAMBDA e : e.key # k)

\* Array.from(files.values())
MapValues(m) == [i \in 1..Len(m) |-> m[i].file]

MapKeys(m) == {m[i].key : i \in 1..Len(m)}

\* --------------------------------------------------------------- records
\* The picked file with index n of the session: its mime type and the
\* toolResource argument it was attached with.
Picked(sel, u) == sel[IndexOf(u)]

\* handleFileChange: the record registered for a picked file.
ExtendedFile(u, type, tool) ==
  [file_id |-> u,
   temp_file_id |-> u,
   type |-> type,
   filename |-> <<"upload ", u>>,
   filepath |-> EmptyStr,
   progress |-> Progress0,
   preview |-> IF StartsWithImage(type) THEN BlobUrl(u, 0) ELSE EmptyStr,
   width |-> NoDim,
   height |-> NoDim,
   attached |-> FALSE,
   hasFile |-> TRUE,
   tool_resource |-> tool,
   source |-> NoSource]

\* Mutant: the decoded width and height are stored the wrong way round.
LoadedFileSwapped(extendedFile, w, h) ==
  [extendedFile EXCEPT !.width = h, !.height = w, !.progress = Progress06]

\* loadImage, img.onload: the record written once the image is decoded.
LoadedFile(extendedFile, w, h) ==
  [extendedFile EXCEPT !.width = w, !.height = h, !.progress = Progress06]

\* The form data of an upload submission: the provisional identifier, the
\* dimensions (images only) and the category tag.
FormData(file_id, w, h, tool) ==
  [file_id |-> file_id, width |-> w, height |-> h, tool_resource |-> tool]

\* The response of the upload service to a submission.
UploadResponse(form) ==
  [temp_file_id |-> form.file_id,
   file_id |-> ServerId(form.file_id),
   filepath |-> PathOf(ServerId(form.file_id))]

\* uploadFile.onSuccess: the acknowledged record.
UpdatedFile(file, data) ==
  [file EXCEPT !.file_id = data.file_id,
               !.filepath = data.filepath,
               !.progress = Progress1,
               !.attached = TRUE,
               !.preview = IF Truthy(file.preview) THEN file.preview
                           ELSE IF StartsWithImage(file.type) THEN data.filepath
                           ELSE Undefined]

\* Mutant: an acknowledgement that matches no record adds one.
OnSuccessFilesUpsert(prev, data) ==
  LET hits == {i \in 1..Len(prev) : prev[i].file.temp_file_id = data.temp_file_id}
  IN IF hits = {}
       THEN MapSet(prev, data.file_id,
                   UpdatedFile(ExtendedFile(data.temp_file_id, "text/plain", NoTool), data))
       ELSE LET first == CHOOSE i \in hits : \A j \in hits : i <= j
            IN [prev EXCEPT ![first] = [key |-> prev[first].key,
                                        file |-> UpdatedFile(prev[first].file, data)]]

\* Mutant: the acknowledgement is merged into the first record of the
\* registry, whatever its temp_file_id.
OnSuccessFilesFirst(prev, data) ==
  IF prev = <<>> THEN prev
  ELSE [prev EXCEPT ![1] = [key |-> prev[1].key,
                            file |-> UpdatedFile(prev[1].file, data)]]

\* uploadFile.onSuccess: the first entry whose temp_file_id is the
\* response's is replaced under its own key; no entry matches: a copy.
OnSuccessFiles(prev, data) ==
  LET hits == {i \in 1..Len(prev) : prev[i].file.temp_file_id = data.temp_file_id}
  IN IF hits = {} THEN prev
     ELSE LET first == CHOOSE i \in hits : \A j \in hits : i <= j
          IN [prev EXCEPT ![first] = [key |-> prev[first].key,
                                      file |-> UpdatedFile(prev[first].file, data)]]

\* ----------------------------------------------------------- derived views
\* Mutant: the category is inferred from the mime type, whatever the tag.
ToolResourceOfType(file) ==
  IF StartsWithImage(file.type) THEN image_edit ELSE file_search

\* getToolResources: the category of a record.
ToolResourceOf(file) ==
  IF file.tool_resource # NoTool THEN file.tool_resource
  ELSE IF StartsWithImage(file.type) THEN image_edit
  ELSE IF file.type = "application/pdf" \/ IncludesText(file.type) THEN file_search
  ELSE file_search

\* A tool_resources object is the sequence of its categories in insertion
\* order, each with its file_ids.
HasCategory(tr, cat) == \E i \in 1..Len(tr) : tr[i].tool = cat

InSeq(x, s) == \E i \in 1..Len(s) : s[i] = x

\* Mutant: the identifier is pushed even when the category lists it already.
AddFileIdAgain(tr, file) ==
  IF file.file_id = "" THEN tr
  ELSE LET cat == ToolResourceOf(file)
           tr1 == IF HasCategory(tr, cat) THEN tr
                  ELSE Append(tr, [tool |-> cat, file_ids |-> <<>>])
       IN [i \in 1..Len(tr1) |->
             IF tr1[i].tool = cat
               THEN [tr1[i] EXCEPT !.file_ids = Append(@, file.file_id)]
               ELSE tr1[i]]

\* getToolResources, the body of the forEach: the category is created when
\* missing and the identifier is pushed unless it is already listed.
AddFileId(tr, file) ==
  IF file.file_id = "" THEN tr
  ELSE LET cat == ToolResourceOf(file)
           tr1 == IF HasCategory(tr, cat) THEN tr
                  ELSE Append(tr, [tool |-> cat, file_ids |-> <<>>])
       IN [i \in 1..Len(tr1) |->
             IF tr1[i].tool = cat /\ ~InSeq(file.file_id, tr1[i].file_ids)
               THEN [tr1[i] EXCEPT !.file_ids = Append(@, file.file_id)]
               ELSE tr1[i]]

RECURSIVE CollectToolResources(_, _)
CollectToolResources(promptFiles, tr) ==
  IF promptFiles = <<>> THEN tr
  ELSE CollectToolResources(Tail(promptFiles), AddFileId(tr, Head(promptFiles)))

\* The result of getToolResources: undefined (present = FALSE) or the map.
Absent == [present |-> FALSE, map |-> <<>>]
Present(tr) == [present |-> TRUE, map |-> tr]

getToolResources(promptFiles) ==
  IF Len(promptFiles) = 0 THEN Absent
  ELSE LET tr == CollectToolResources(promptFiles, <<>>)
       IN IF Len(tr) > 0 THEN Present(tr) ELSE Absent

\* Mutant: a file is ready as soon as it has a file_id.
areFilesReadyById(promptFiles) ==
  \A i \in 1..Len(promptFiles) : promptFiles[i].file_id # ""

areFilesReady(promptFiles) ==
  \A i \in 1..Len(promptFiles) :
    promptFiles[i].file_id # "" /\ promptFiles[i].progress = Progress1

fileStats(promptFiles) ==
  LET idx == 1..Len(promptFiles)
      up == {i \in idx : promptFiles[i].progress < Progress1}
      img == {i \in idx \ up : StartsWithImage(promptFiles[i].type)}
  IN [total |-> Len(promptFiles),
      images |-> Cardinality(img),
      documents |-> Cardinality((idx \ up) \ img),
      uploading |-> Cardinality(up)]

\* ----------------------------------------------------- loadFromToolResources
\* The metadata (TFile) the service holds for an identifier: the file stored
\* before the session, or an upload of the session (sel: the picked files).
DbFile(id, sel) ==
  IF id = OldId
    THEN [file_id |-> id, type |-> "image/png", filename |-> <<"old.png">>,
          filepath |-> PathOf(id), width |-> ImgWidth, height |-> ImgHeight,
          source |-> local]
    ELSE LET n == CHOOSE k \in 1..Len(sel) : ServerId(V4(k)) = id
         IN [file_id |-> id, type |-> sel[n].type, filename |-> <<"upload ", V4(n)>>,
             filepath |-> PathOf(id),
             width |-> IF StartsWithImage(sel[n].type) THEN ImgWidth ELSE NoDim,
             height |-> IF StartsWithImage(sel[n].type) THEN ImgHeight ELSE NoDim,
             source |-> local]

\* fileMap: the lookup from the identifiers in known to their metadata.
FileMap(known, sel) == [id \in known |-> DbFile(id, sel)]

\* The source of a restored record.
SourceOf(toolResource, fileMap, fileId) ==
  IF toolResource = file_search THEN vectordb
  ELSE IF fileId \in DOMAIN fileMap THEN fileMap[fileId].source
  ELSE local

\* The record restored from the metadata of a known file.
RestoredFile(dbFile, toolResource, previewUrl, source) ==
  [file_id |-> dbFile.file_id,
   temp_file_id |-> dbFile.file_id,
   type |-> dbFile.type,
   filename |-> dbFile.filename,
   filepath |-> dbFile.filepath,
   progress |-> Progress1,
   preview |-> previewUrl,
   width |-> dbFile.width,
   height |-> dbFile.height,
   attached |-> TRUE,
   hasFile |-> FALSE,
   tool_resource |-> toolResource,
   source |-> source]

\* The placeholder restored for an identifier the lookup does not know.
PlaceholderFile(fileId, toolResource, source) ==
  [file_id |-> fileId,
   temp_file_id |-> fileId,
   type |-> "application/octet-stream",
   filename |-> <<"File ", fileId>>,
   filepath |-> EmptyStr,
   progress |-> Progress1,
   preview |-> EmptyStr,
   width |-> NoDim,
   height |-> NoDim,
   attached |-> TRUE,
   hasFile |-> FALSE,
   tool_resource |-> toolResource,
   source |-> source]

\* The (category, identifier) pairs of a map in the order of the two loops.
RECURSIVE PairsOf(_)
PairsOf(tr) ==
  IF tr = <<>> THEN <<>>
  ELSE [i \in 1..Len(Head(tr).file_ids) |->
          [tool |-> Head(tr).tool, id |-> Head(tr).file_ids[i]]] \o PairsOf(Tail(tr))

\* Does the loop suspend (await createAuthenticatedBlobUrl) at this pair?
NeedsBlob(pair, fileMap) ==
  pair.id \in DOMAIN fileMap /\ StartsWithImage(fileMap[pair.id].type)

\* Mutant: an identifier the lookup does not know is skipped.
RestoreOneKnown(filesMap, pair, fileMap, previewUrl) ==
  IF pair.id \in DOMAIN fileMap
    THEN MapSet(filesMap, pair.id,
                RestoredFile(fileMap[pair.id], pair.tool, previewUrl,
                             SourceOf(pair.tool, fileMap, pair.id)))
    ELSE filesMap

\* Mutant: every iteration adds an entry, also for an identifier that the
\* map built so far already holds.
RestoreOneAppend(filesMap, pair, fileMap, previewUrl) ==
  LET source == SourceOf(pair.tool, fileMap, pair.id)
  IN Append(filesMap,
            [key |-> pair.id,
             file |-> IF pair.id \in DOMAIN fileMap
                        THEN RestoredFile(fileMap[pair.id], pair.tool, previewUrl, source)
                        ELSE PlaceholderFile(pair.id, pair.tool, source)])

\* One iteration of the inner loop, given the preview of a known file.
RestoreOne(filesMap, pair, fileMap, previewUrl) ==
  LET source == SourceOf(pair.tool, fileMap, pair.id)
  IN MapSet(filesMap, pair.id,
            IF pair.id \in DOMAIN fileMap
              THEN RestoredFile(fileMap[pair.id], pair.tool, previewUrl, source)
              ELSE PlaceholderFile(pair.id, pair.tool, source))

\* The loops run until the next await or to their end: the pairs left (the
\* first of them awaiting its blob URL) and the map built so far.
RECURSIVE RunLoops(_, _, _)
RunLoops(todo, filesMap, fileMap) ==
  IF todo = <<>> \/ NeedsBlob(Head(todo), fileMap)
    THEN [todo |-> todo, filesMap |-> filesMap]
    ELSE RunLoops(Tail(todo), RestoreOne(filesMap, Head(todo), fileMap, Undefined), fileMap)

\* Mutant: the preview is what createAuthenticatedBlobUrl returned, null too.
PreviewUrlNoFallback(blob, dbFile) == blob

\* The preview of a restored image: the blob URL, or the stored path when
\* createAuthenticatedBlobUrl returned null.
PreviewUrl(blob, dbFile) == IF Truthy(blob) THEN blob ELSE dbFile.filepath

\* loadFromToolResources run from the given pair to its end, every
\* createAuthenticatedBlobUrl call creating an object URL or none doing so.
RECURSIVE RestoreAll(_, _, _, _)
RestoreAll(todo, filesMap, fileMap, created) ==
  LET r == RunLoops(todo, filesMap, fileMap)
  IN IF r.todo = <<>> THEN r.filesMap
     ELSE LET pair == Head(r.todo)
              blob == IF created THEN BlobUrl(pair.id, Len(r.todo)) ELSE Undefined
          IN RestoreAll(Tail(r.todo),
                        RestoreOne(r.filesMap, pair, fileMap,
                                   PreviewUrl(blob, fileMap[pair.id])),
                        fileMap, created)

\* A persisted map as an object: the pairs grouped by category, categories in
\* the order of their first pair.
RECURSIVE GroupPairs(_, _)
GroupPairs(pairs, tr) ==
  IF pairs = <<>> THEN tr
  ELSE LET p == Head(pairs)
           tr1 == IF HasCategory(tr, p.tool) THEN tr
                  ELSE Append(tr, [tool |-> p.tool, file_ids |-> <<>>])
       IN GroupPairs(Tail(pairs),
                     [i \in 1..Len(tr1) |->
                        IF tr1[i].tool = p.tool
                          THEN [tr1[i] EXCEPT !.file_ids = Append(@, p.id)]
                          ELSE tr1[i]])

\* The persisted maps over a set of identifiers, of at most n pairs.
SeqsUpTo(S, n) == UNION {[1..k -> S] : k \in 0..n}
PersistedMaps(ids, n) ==
  {GroupPairs(pairs, <<>>) : pairs \in SeqsUpTo([tool : Categories, id : ids], n)}

\* ------------------------------------------------------------------ state
VARIABLES
  files,         \* useState: the registry, Map<string, ExtendedFile>
  filesLoading,  \* useState: filesLoading
  toast,         \* status of the last showToast: "none", "success", "error"
  selected,      \* the files picked so far: selected[n] was given V4(n)
  decoding,      \* identifiers whose image decode (img.onload) is pending
  uploads,       \* form data of the submissions the service has not answered
  stored,        \* identifiers the service assigned in this session
  load,          \* the loadFromToolResources call suspended at an await
  nloads,        \* identifiers restored so far (one for a call with none)
  revoked,       \* object URLs passed to URL.revokeObjectURL
  objectUrls,    \* history: object URLs created by URL.createObjectURL
  fileSetterLists, \* the lists handed to fileSetter by the last registry update
  abortControllerRef, \* useRef: abortControllerRef.current
  abortSignals,  \* the number of abort() calls that reached the transport
  naborts,       \* the number of abortUpload calls so far
  projected,     \* the value returned by the last getToolResources() call
  abortedInFlight, \* history: abortUpload was invoked with an upload in flight
  expected,      \* history: files attached or restored and not removed
  failed,        \* history: identifiers whose upload failure was notified
  missed,        \* history: acknowledgements that matched no record
  seen           \* history: seen[n], the progress values V4(n) was seen at

vars == <<files, filesLoading, toast, selected, decoding, uploads, stored,
          load, nloads, revoked, objectUrls, fileSetterLists, abortControllerRef,
          abortSignals, naborts, projected, abortedInFlight, expected, failed,
          missed, seen>>

\* Array.from(files.values())
promptFiles == MapValues(files)

\* useRef<AbortController | null>(null)
NoController == "null"

\* The variables the pipelines, removal and restoration leave alone: those of
\* abortUpload and the result of the last getToolResources() call.
abortVars == <<abortControllerRef, abortSignals, naborts, abortedInFlight,
               projected>>

\* getToolResources has not been called.
NotCalled == [called |-> FALSE, result |-> Absent]

\* No loadFromToolResources call is suspended.
Idle == [active |-> FALSE, map |-> <<>>, todo |-> <<>>, filesMap |-> <<>>,
         known |-> {}]

\* useState initialiser: initialFiles keyed by file_id || temp_file_id.
RECURSIVE InitialMap(_, _)
InitialMap(initialFiles, filesMap) ==
  IF initialFiles = <<>> THEN filesMap
  ELSE LET file == Head(initialFiles)
           key == IF file.file_id # "" THEN file.file_id ELSE file.temp_file_id
       IN InitialMap(Tail(initialFiles), MapSet(filesMap, key, file))

\* The initialFiles the owner passes: none, or the file stored earlier.
InitialFileLists ==
  {<<>>,
   <<RestoredFile(DbFile(OldId, <<>>), image_edit, PathOf(OldId), local)>>}

\* The records of the registry that hold the file registered as id.
RecordsOf(m, id) == {i \in 1..Len(m) : m[i].file.temp_file_id = id}

\* seen: the progress of each attached file still in the registry is noted
\* when it differs from the last value noted.
Observe(sn, m) ==
  [n \in 1..Len(sn) |->
     LET hits == RecordsOf(m, V4(n))
     IN IF hits = {} THEN sn[n]
        ELSE LET p == m[CHOOSE i \in hits : TRUE].file.progress
             IN IF sn[n] # <<>> /\ sn[n][Len(sn[n])] = p THEN sn[n]
                ELSE Append(sn[n], p)]

Init ==
  /\ \E initialFiles \in InitialFileLists :
       /\ files = InitialMap(initialFiles, <<>>)
       /\ expected = MapKeys(InitialMap(initialFiles, <<>>))
       /\ fileSetterLists = {MapValues(InitialMap(initialFiles, <<>>))}
  /\ filesLoading = FALSE
  /\ toast = "none"
  /\ selected = <<>>
  /\ decoding = {}
  /\ uploads = {}
  /\ stored = {}
  /\ load = Idle
  /\ nloads = 0
  /\ revoked = {}
  /\ objectUrls = {}
  /\ abortControllerRef = NoController
  /\ abortSignals = 0
  /\ naborts = 0
  /\ projected = NotCalled
  /\ abortedInFlight = FALSE
  /\ failed = {}
  /\ missed = {}
  /\ seen = <<>>

\* ---------------------------------------------------------------- actions
\* handleFileChange, fileList.forEach: the records are registered in turn.
RECURSIVE RegisterAll(_, _, _, _)
RegisterAll(m, types, tool, n) ==
  IF types = <<>> THEN m
  ELSE RegisterAll(MapSet(m, V4(n), ExtendedFile(V4(n), Head(types), tool)),
                   Tail(types), tool, n + 1)

\* Mutant: every file is submitted at once, images before their decode too.
ImmediateUploadsAll(types) == 1..Len(types)

\* handleFileChange: the files submitted at once, those that are no image.
ImmediateUploads(types) == {i \in 1..Len(types) : ~StartsWithImage(types[i])}

\* handleFileChange(event, toolResource) with event.target.files of the given
\* mime types: every file is registered; an image starts its decode, another
\* file is submitted at once.
HandleFileChange(types, tool) ==
  LET base == Len(selected)
      new == 1..Len(types)
      images == {i \in new : StartsWithImage(types[i])}
      atOnce == ImmediateUploads(types)
  IN /\ Len(types) <= MaxOps - (base + nloads + naborts)
     /\ filesLoading' = TRUE
     /\ files' = RegisterAll(files, types, tool, base + 1)
     /\ fileSetterLists' = {MapValues(files')}
     /\ selected' = selected \o [i \in new |-> [type |-> types[i], tool |-> tool]]
     /\ decoding' = decoding \cup {V4(base + i) : i \in images}
     /\ uploads' = uploads \cup
          {FormData(V4(base + i), NoDim, NoDim, tool) : i \in atOnce}
     /\ objectUrls' = objectUrls \cup
          {ExtendedFile(V4(base + i), types[i], tool).preview : i \in images}
     /\ expected' = expected \cup {V4(base + i) : i \in new}
     /\ seen' = Observe(seen \o [i \in new |-> <<>>], files')
     /\ UNCHANGED <<abortVars, toast, stored, load, nloads, revoked, failed,
                    missed>>

\* Mutant: img.onload revokes every object URL created so far, those of
\* images whose decode is still pending too.
ImageLoadedRevokesAll(u) ==
  LET pick == Picked(selected, u)
      extendedFile == ExtendedFile(u, pick.type, pick.tool)
  IN /\ u \in decoding
     /\ decoding' = decoding \ {u}
     /\ files' = MapSet(files, extendedFile.file_id,
                        LoadedFile(extendedFile, ImgWidth, ImgHeight))
     /\ fileSetterLists' = {MapValues(files')}
     /\ uploads' = uploads \cup
          {FormData(extendedFile.file_id, ImgWidth, ImgHeight,
                    extendedFile.tool_resource)}
     /\ revoked' = revoked \cup objectUrls
     /\ seen' = Observe(seen, files')
     /\ UNCHANGED <<abortVars, filesLoading, toast, selected, stored, load, nloads,
                    objectUrls, expected, failed, missed>>

\* loadImage, img.onload for the image registered as u: the captured record
\* is written with its dimensions, the upload is submitted and the object URL
\* is revoked.
ImageLoaded(u) ==
  LET pick == Picked(selected, u)
      extendedFile == ExtendedFile(u, pick.type, pick.tool)
  IN /\ u \in decoding
     /\ decoding' = decoding \ {u}
     /\ files' = MapSet(files, extendedFile.file_id,
                        LoadedFile(extendedFile, ImgWidth, ImgHeight))
     /\ fileSetterLists' = {MapValues(files')}
     /\ uploads' = uploads \cup
          {FormData(extendedFile.file_id, ImgWidth, ImgHeight,
                    extendedFile.tool_resource)}
     /\ revoked' = revoked \cup {extendedFile.preview}
     /\ seen' = Observe(seen, files')
     /\ UNCHANGED <<abortVars, filesLoading, toast, selected, stored, load, nloads,
                    objectUrls, expected, failed, missed>>

\* The decode of the image registered as u fails: img has no onerror handler,
\* so nothing runs.
ImageFailed(u) ==
  /\ u \in decoding
  /\ decoding' = decoding \ {u}
  /\ UNCHANGED <<abortVars, files, filesLoading, toast, selected, uploads, stored, load,
                 nloads, revoked, objectUrls, fileSetterLists, expected, failed,
                 missed, seen>>

\* uploadFile.onSuccess for the submission form.
UploadSuccess(form) ==
  LET data == UploadResponse(form)
  IN /\ form \in uploads
     /\ uploads' = uploads \ {form}
     /\ stored' = stored \cup {data.file_id}
     /\ files' = OnSuccessFiles(files, data)
     /\ fileSetterLists' = {MapValues(files')}
     /\ filesLoading' = FALSE
     /\ toast' = "success"
     /\ missed' = IF RecordsOf(files, data.temp_file_id) = {}
                    THEN missed \cup {data.temp_file_id} ELSE missed
     /\ seen' = Observe(seen, files')
     /\ UNCHANGED <<abortVars, selected, decoding, load, nloads, revoked, objectUrls,
                    expected, failed>>

\* Mutant: a failed upload drops its record from the registry.
UploadErrorRemoves(form) ==
  /\ form \in uploads
  /\ uploads' = uploads \ {form}
  /\ filesLoading' = FALSE
  /\ toast' = "error"
  /\ failed' = failed \cup {form.file_id}
  /\ files' = MapDelete(files, form.file_id)
  /\ fileSetterLists' = {MapValues(files')}
  /\ UNCHANGED <<abortVars, selected, decoding, stored, load, nloads, revoked,
                 objectUrls, expected, missed, seen>>

\* uploadFile.onError for the submission form.
UploadError(form) ==
  /\ form \in uploads
  /\ uploads' = uploads \ {form}
  /\ filesLoading' = FALSE
  /\ toast' = "error"
  /\ failed' = failed \cup {form.file_id}
  /\ UNCHANGED <<abortVars, files, selected, decoding, stored, load, nloads, revoked,
                 objectUrls, fileSetterLists, expected, missed, seen>>

\* The identifiers a caller can pass to handleFileRemove: the keys and the
\* identifiers of the records shown.
RemovableIds ==
  MapKeys(files) \cup {files[i].file.file_id : i \in 1..Len(files)}

\* handleFileRemove: the list it hands to fileSetter, the records of the
\* rendered registry whose file_id and temp_file_id both differ from fileId.
UpdatedFiles(m, fileId) ==
  SelectSeq(MapValues(m),
            LAMBDA f : f.file_id # fileId /\ f.temp_file_id # fileId)

\* handleFileRemove(fileId): the entry with key fileId is deleted, fileSetter
\* is handed updatedFiles, and the sync effect hands it the new promptFiles.
HandleFileRemove(fileId) ==
  /\ fileId \in RemovableIds
  /\ files' = MapDelete(files, fileId)
  /\ fileSetterLists' = {UpdatedFiles(files, fileId), MapValues(files')}
  /\ expected' = expected \
       {files[i].file.temp_file_id : i \in
          {j \in 1..Len(files) : \/ files[j].file.file_id = fileId
                                 \/ files[j].file.temp_file_id = fileId}}
  /\ seen' = Observe(seen, files')
  /\ UNCHANGED <<abortVars, filesLoading, toast, selected, decoding, uploads, stored, load,
                 nloads, revoked, objectUrls, failed, missed>>

\* The identifiers a persisted map can list: of files the service stores, or
\* the one it no longer knows.
PersistedIds == {OldId, UnknownId} \cup stored

\* The identifiers of a map.
IdsOf(tr) == {PairsOf(tr)[i].id : i \in 1..Len(PairsOf(tr))}

\* The registry is replaced by the restored map (setFiles(filesMap)) when the
\* loops have ended; otherwise the call stays suspended at its await.
Resume(toolResources, r, known) ==
  IF r.todo = <<>>
    THEN /\ files' = r.filesMap
         /\ fileSetterLists' = {MapValues(r.filesMap)}
         /\ expected' = MapKeys(r.filesMap)
         /\ load' = Idle
    ELSE /\ load' = [active |-> TRUE, map |-> toolResources, todo |-> r.todo,
                     filesMap |-> r.filesMap, known |-> known]
         /\ UNCHANGED <<files, fileSetterLists, expected>>

\* What is left of the size of the run.
Budget == MaxOps - (Len(selected) + nloads + naborts)

\* What a loadFromToolResources call takes of it.
Cost(toolResources) ==
  IF Len(PairsOf(toolResources)) = 0 THEN 1 ELSE Len(PairsOf(toolResources))

\* loadFromToolResources(undefined): the registry is emptied.
LoadNothing ==
  /\ Budget > 0
  /\ nloads' = nloads + 1
  /\ files' = <<>>
  /\ fileSetterLists' = {<<>>}
  /\ expected' = {}
  /\ seen' = Observe(seen, files')
  /\ UNCHANGED <<abortVars, filesLoading, toast, selected, decoding, uploads, stored, load,
                 revoked, objectUrls, failed, missed>>

\* loadFromToolResources(toolResources) with a fileMap that knows the
\* identifiers in known: the loops run to the first image of the lookup.
LoadFromToolResources(toolResources, known) ==
  /\ ~load.active
  /\ Cost(toolResources) <= Budget
  /\ nloads' = nloads + Cost(toolResources)
  /\ Resume(toolResources,
            RunLoops(PairsOf(toolResources), <<>>, FileMap(known, selected)), known)
  /\ seen' = Observe(seen, files')
  /\ UNCHANGED <<abortVars, filesLoading, toast, selected, decoding, uploads, stored,
                 revoked, objectUrls, failed, missed>>

\* How a createAuthenticatedBlobUrl call goes: no user or token, a response
\* that is not ok, fetch or response.blob() throwing, or a blob received.
FetchOutcomes == {"no_auth", "not_ok", "error", "ok"}

\* createAuthenticatedBlobUrl(fileId), its n-th call for that identifier:
\* the object URL of the blob, or null on every other outcome (the early
\* return, the !response.ok return and the catch).
createAuthenticatedBlobUrl(outcome, fileId, n) ==
  IF outcome = "ok" THEN BlobUrl(fileId, n) ELSE Undefined

\* createAuthenticatedBlobUrl returns to the suspended call after the given
\* outcome, and the loops go on to the next await or to their end.
BlobFetchedWith(outcome) ==
  LET pair == Head(load.todo)
      fileMap == FileMap(load.known, selected)
      blob == createAuthenticatedBlobUrl(outcome, pair.id, Len(load.todo))
      filesMap == RestoreOne(load.filesMap, pair, fileMap,
                             PreviewUrl(blob, fileMap[pair.id]))
  IN /\ load.active
     /\ Resume(load.map, RunLoops(Tail(load.todo), filesMap, fileMap), load.known)
     /\ objectUrls' = IF Truthy(blob) THEN objectUrls \cup {blob} ELSE objectUrls
     /\ seen' = Observe(seen, files')
     /\ UNCHANGED <<abortVars, filesLoading, toast, selected, decoding, uploads,
                    stored, nloads, revoked, failed, missed>>

\* createAuthenticatedBlobUrl returns to the suspended call: an object URL
\* (created = TRUE) or null.
BlobFetched(created) ==
  \E outcome \in FetchOutcomes :
    /\ created <=> outcome = "ok"
    /\ BlobFetchedWith(outcome)

\* abortUpload(): abort() is called on the controller the ref holds, if it
\* holds one, and the ref is cleared.
AbortUpload ==
  /\ Budget > 0
  /\ naborts' = naborts + 1
  /\ IF abortControllerRef # NoController
       THEN /\ abortSignals' = abortSignals + 1
            /\ abortControllerRef' = NoController
       ELSE UNCHANGED <<abortControllerRef, abortSignals>>
  /\ abortedInFlight' = (abortedInFlight \/ uploads # {})
  /\ UNCHANGED <<files, filesLoading, toast, selected, decoding, uploads, stored,
                 load, nloads, revoked, objectUrls, fileSetterLists, projected,
                 expected, failed, missed, seen>>


Next ==
  \/ \E tool \in ToolChoices :
       \E types \in SeqsUpTo(TypesFor(tool), MaxOps) : HandleFileChange(types, tool)
  \/ \E u \in decoding : ImageLoaded(u)
  \/ \E u \in decoding : ImageFailed(u)
  \/ \E form \in uploads : UploadSuccess(form)
  \/ \E form \in uploads : UploadError(form)
  \/ \E fileId \in RemovableIds : HandleFileRemove(fileId)
  \/ LoadNothing
  \/ \E toolResources \in PersistedMaps(PersistedIds, Budget) :
       \E known \in SUBSET (IdsOf(toolResources) \ {UnknownId}) :
         LoadFromToolResources(toolResources, known)
  \/ \E created \in BOOLEAN : BlobFetched(created)
  \/ AbortUpload

Spec == Init /\ [][Next]_vars

\* ------------------------------------------- getToolResources on any registry
\* The number of records of a registry getToolResources is applied to.
MaxRecords == 2

\* file_id of a record: empty, or an identifier given by the service.
SampleIds == {"", ServerId(V4(1)), ServerId(V4(2))}
\* Mime types: an image, a PDF, a text-like type and another type.
SampleTypes == {"image/png", "application/pdf", "text/csv", "application/zip"}
\* tool_resource of a record: none, or either category.
SampleTools == {NoTool} \cup Categories

\* The records of such a registry.
SampleRecords ==
  {[ExtendedFile(V4(1), type, tool) EXCEPT !.file_id = id, !.progress = Progress1]
     : id \in SampleIds, type \in SampleTypes, tool \in SampleTools}

\* A registry with the given values, each under a key of its own.
RegistryOf(list) == [i \in 1..Len(list) |-> [key |-> V4(i), file |-> list[i]]]

\* The hook holds any registry of at most MaxRecords records.
InitRegistry ==
  /\ \E list \in SeqsUpTo(SampleRecords, MaxRecords) :
       /\ files = RegistryOf(list)
       /\ fileSetterLists = {list}
  /\ expected = {}
  /\ filesLoading = FALSE
  /\ toast = "none"
  /\ selected = <<>>
  /\ decoding = {}
  /\ uploads = {}
  /\ stored = {}
  /\ load = Idle
  /\ nloads = 0
  /\ revoked = {}
  /\ objectUrls = {}
  /\ abortControllerRef = NoController
  /\ abortSignals = 0
  /\ naborts = 0
  /\ projected = NotCalled
  /\ abortedInFlight = FALSE
  /\ failed = {}
  /\ missed = {}
  /\ seen = <<>>

\* getToolResources(): the owner calls it and keeps what it returns.
GetToolResources ==
  /\ ~projected.called
  /\ projected' = [called |-> TRUE, result |-> getToolResources(promptFiles)]
  /\ UNCHANGED <<files, filesLoading, toast, selected, decoding, uploads, stored,
                 load, nloads, revoked, objectUrls, fileSetterLists,
                 abortControllerRef, abortSignals, naborts, abortedInFlight,
                 expected, failed, missed, seen>>

NextRegistry == GetToolResources

SpecRegistry == InitRegistry /\ [][NextRegistry]_vars

\* ----------------------------------------------------------------- claims
\* The files held by the registry, each named by the identifier it was
\* registered or restored under.
Held == {files[i].file.temp_file_id : i \in 1..Len(files)}

\* A record has an authoritative identifier when its file_id is set and was
\* not generated on the client.
Authoritative(file) == file.file_id # "" /\ file.file_id \notin V4Ids

\* C1: after any sequence of attach, remove and restore operations and of
\* decode completions and upload answers, the records of the registry are
\* exactly the attached or restored files that were not removed, each once.
C1_RegistryIsAttachedNotRemoved ==
  /\ Held = expected
  /\ Cardinality(Held) = Len(files)

\* C2: the progress of a record never decreases from one registry state to
\* the next, as long as the record stays in the registry.
C2_ProgressNeverDecreases ==
  [][\A i \in 1..Len(files) : \A j \in 1..Len(files') :
       files'[j].key = files[i].key
         => files'[j].file.progress >= files[i].file.progress]_vars

\* C2, witness: an image has gone through 0, 0.6 and 1 while another file of
\* the registry was still uploading.
C2_Witness ==
  \E n \in 1..Len(seen) :
    /\ seen[n] = <<Progress0, Progress06, Progress1>>
    /\ \E i \in 1..Len(files) : files[i].file.progress < Progress1

\* The records an acknowledgement of form must leave alone are left alone,
\* and the record registered as form.file_id holds the response.
AckMergedInOwnRecord(form) ==
  LET data == UploadResponse(form)
  IN /\ Len(files') = Len(files)
     /\ \A i \in 1..Len(files) :
          IF files[i].file.temp_file_id = data.temp_file_id
            THEN /\ files'[i].key = files[i].key
                 /\ files'[i].file.file_id = data.file_id
                 /\ files'[i].file.filepath = data.filepath
                 /\ files'[i].file.progress = Progress1
            ELSE files'[i] = files[i]

\* Every acknowledged upload of the registry holds the identifier and the
\* stored path the service gave to that very file.
AckedRecordsHoldOwnIds ==
  \A i \in 1..Len(files) :
    LET file == files[i].file
    IN file.temp_file_id \in V4Ids
         => /\ file.file_id \in {file.temp_file_id, ServerId(file.temp_file_id)}
            /\ file.progress = Progress1
                 <=> /\ file.file_id = ServerId(file.temp_file_id)
                     /\ file.filepath = PathOf(ServerId(file.temp_file_id))

\* C3: an acknowledgement changes only the record whose temp_file_id is the
\* acknowledgement's, in whatever order the uploads are answered, so every
\* acknowledged record holds the identifier and path of its own upload.
C3_AckOnlyTouchesOwnRecord ==
  /\ []AckedRecordsHoldOwnIds
  /\ [][\A form \in uploads : UploadSuccess(form) => AckMergedInOwnRecord(form)]_vars

\* C3, witness: two files attached together, the second acknowledged first.
C3_Witness ==
  /\ Len(files) = 2
  /\ files[1].file.temp_file_id = V4(1) /\ files[1].file.progress < Progress1
  /\ files[2].file.temp_file_id = V4(2) /\ files[2].file.progress = Progress1
  /\ files[2].file.file_id = ServerId(V4(2))
  /\ \E form \in uploads : form.file_id = V4(1)

\* The metadata of a record, as a lookup that knows the record would give it.
TFileOf(file) ==
  [file_id |-> file.file_id, type |-> file.type, filename |-> file.filename,
   filepath |-> file.filepath, width |-> file.width, height |-> file.height,
   source |-> local]

\* A lookup that knows every identifier of the registry m.
PerfectFileMap(m) ==
  [id \in {m[i].file.file_id : i \in 1..Len(m)} |->
     TFileOf(m[CHOOSE i \in 1..Len(m) : m[i].file.file_id = id].file)]

\* getToolResources followed by loadFromToolResources on the registry m.
ProjectRestore(m, created) ==
  LET tr == getToolResources(MapValues(m))
  IN IF tr.present
       THEN RestoreAll(PairsOf(tr.map), <<>>, PerfectFileMap(m), created)
       ELSE <<>>

\* C4: projecting any reachable registry and restoring the result with a
\* lookup that knows every identifier gives back every record that had an
\* authoritative identifier, in its category, and no record of a file that
\* had none.
C4_ProjectRestoreKeepsAuthoritative ==
  \A created \in BOOLEAN :
    LET back == ProjectRestore(files, created)
    IN /\ \A i \in 1..Len(files) :
            Authoritative(files[i].file) =>
              \E j \in 1..Len(back) :
                /\ back[j].file.file_id = files[i].file.file_id
                /\ ToolResourceOf(back[j].file) = ToolResourceOf(files[i].file)
       /\ \A j \in 1..Len(back) :
            \E i \in 1..Len(files) :
              /\ Authoritative(files[i].file)
              /\ files[i].file.file_id = back[j].file.file_id

\* C5: areFilesReady is true exactly when no record is uploading and every
\* record has an authoritative identifier.
C5_ReadyIffNoneUploadingAllAuthoritative ==
  areFilesReady(promptFiles) <=>
    /\ fileStats(promptFiles).uploading = 0
    /\ \A i \in 1..Len(promptFiles) : Authoritative(promptFiles[i])

\* C5, witness: two records, one acknowledged and one still provisional, so
\* the registry is not ready.
C5_Witness ==
  /\ Len(promptFiles) = 2
  /\ ~areFilesReady(promptFiles)
  /\ \E i \in 1..2 : promptFiles[i].progress = Progress1
  /\ \E i \in 1..2 : ~Authoritative(promptFiles[i])

\* C6: getToolResources lists no identifier of a record that is still
\* uploading, only authoritative identifiers, and is absent when no record
\* has one.
C6_NoUploadingIdProjected ==
  LET tr == getToolResources(promptFiles)
  IN /\ \A i \in 1..Len(promptFiles) :
          promptFiles[i].file_id \in IdsOf(tr.map) => Authoritative(promptFiles[i])
     /\ tr.present => \E i \in 1..Len(promptFiles) : Authoritative(promptFiles[i])

\* C7: when the service reports the failure of an upload, the registry is
\* left as it was (the record stays, with its progress, not marked attached)
\* and an error notification is shown.
C7_FailureLeavesRegistry ==
  [][failed' # failed => files' = files /\ toast' = "error"]_vars

\* C7, witness: a failure was notified for a file whose record is still in
\* the registry, below progress 1 and not attached.
C7_Witness ==
  /\ toast = "error"
  /\ \E u \in failed : \E i \in RecordsOf(files, u) :
       files[i].file.progress < Progress1 /\ ~files[i].file.attached

\* The registry m restored from the map tr with a lookup that knows known:
\* every identifier of tr has its record, and an unknown one a placeholder
\* named after it, under a category that lists it.
RestoredWithPlaceholders(tr, known, m) ==
  \A id \in IdsOf(tr) :
    \E i \in 1..Len(m) :
      /\ m[i].key = id
      /\ m[i].file.file_id = id
      /\ id \notin known =>
           /\ m[i].file.progress = Progress1
           /\ m[i].file.filepath = EmptyStr
           /\ InSeq(id, m[i].file.filename)
           /\ \E k \in 1..Len(tr) :
                tr[k].tool = m[i].file.tool_resource /\ InSeq(id, tr[k].file_ids)

\* C8: loadFromToolResources ends for every map, and the registry it sets has
\* a placeholder for every identifier the lookup does not know and a record
\* for every other identifier of the map.
C8_UnknownIdsBecomePlaceholders ==
  [][/\ \A toolResources \in PersistedMaps(PersistedIds, Budget) :
          \A known \in SUBSET (IdsOf(toolResources) \ {UnknownId}) :
            LoadFromToolResources(toolResources, known) /\ ~load'.active
              => RestoredWithPlaceholders(toolResources, known, files')
     /\ \A created \in BOOLEAN :
          BlobFetched(created) /\ ~load'.active
            => RestoredWithPlaceholders(load.map, load.known, files')]_vars

\* C8, witness: a restore of an unknown and a known identifier has set the
\* registry: the placeholder and the record of the stored image.
C8_Witness ==
  /\ Len(files) = 2
  /\ nloads = 2
  /\ ~load.active
  /\ \E i \in 1..2 : files[i].file = PlaceholderFile(UnknownId, file_search, vectordb)
  /\ \E i \in 1..2 : files[i].key = OldId /\ files[i].file.preview.kind = "blob"

\* C9: an acknowledgement that matches no record of the registry leaves the
\* registry as it is.
C9_CorrelationMissIgnored ==
  [][missed' # missed => files' = files]_vars

\* C9, witness: the acknowledgement of a removed file has arrived while
\* another file is in the registry.
C9_Witness ==
  /\ missed # {}
  /\ toast = "success"
  /\ files # <<>>
  /\ \A u \in missed : RecordsOf(files, u) = {}

\* p is an initial part of q.
IsPrefix(p, q) == Len(p) <= Len(q) /\ \A i \in 1..Len(p) : p[i] = q[i]

\* C10: an attached image is seen at progress 0 without dimensions, then at
\* 0.6 with its width and height, its upload being submitted with them only
\* then, then at 1 with the stored path, attached; another file goes from 0
\* to 1 and is never seen at 0.6.
C10_PerFileStateMachine ==
  \A n \in 1..Len(selected) :
    LET u == V4(n)
        image == StartsWithImage(selected[n].type)
    IN /\ IsPrefix(seen[n], IF image THEN <<Progress0, Progress06, Progress1>>
                                     ELSE <<Progress0, Progress1>>)
       /\ \A i \in RecordsOf(files, u) :
            LET file == files[i].file
            IN /\ file.progress = Progress0 =>
                    file.width = NoDim /\ file.height = NoDim /\ ~file.attached
               /\ file.progress = Progress06 =>
                    image /\ file.width = ImgWidth /\ file.height = ImgHeight
               /\ file.progress = Progress1 =>
                    /\ file.filepath = PathOf(ServerId(u)) /\ file.attached
                    /\ image => file.width = ImgWidth /\ file.height = ImgHeight
       /\ \A form \in uploads :
            form.file_id = u /\ image =>
              /\ form.width = ImgWidth /\ form.height = ImgHeight
              /\ InSeq(Progress06, seen[n])
              /\ \A i \in RecordsOf(files, u) : files[i].file.progress >= Progress06

\* C10, witness: an image that went through 0, 0.6 and 1 beside a file that
\* went from 0 to 1.
C10_Witness ==
  \E n, k \in 1..Len(selected) :
    /\ StartsWithImage(selected[n].type)
    /\ seen[n] = <<Progress0, Progress06, Progress1>>
    /\ ~StartsWithImage(selected[k].type)
    /\ seen[k] = <<Progress0, Progress1>>

\* C11: no record of the registry holds as its preview an object URL that
\* has been revoked.
C11_NoRevokedPreviewHeld ==
  \A i \in 1..Len(files) : files[i].file.preview \notin revoked

\* An object URL is owned while a record of the registry, or of the map a
\* suspended loadFromToolResources call is building, holds it as its preview,
\* or while the decode it was created for is pending.
Owned(url) ==
  \/ \E i \in 1..Len(files) : files[i].file.preview = url
  \/ \E i \in 1..Len(load.filesMap) : load.filesMap[i].file.preview = url
  \/ url.id \in decoding

\* C12: every object URL created (for a picked image, or by
\* createAuthenticatedBlobUrl during a restore) is revoked once its record
\* has been removed or the registry has been reset, and no object URL is
\* revoked twice.
C12_ObjectUrlsReleasedOnce ==
  /\ [](\A url \in objectUrls : ~Owned(url) => url \in revoked)
  /\ [][(\E u \in decoding : ImageLoaded(u)) => revoked' # revoked]_vars

\* C13: every list handed to fileSetter is the contents of the registry as
\* the update that handed it leaves them.
C13_FileSetterGetsRegistry ==
  \A list \in fileSetterLists : list = promptFiles

\* C14: once abortUpload has been invoked with an upload submission in
\* flight, the transport has been given an abort signal; and an abortUpload
\* call changes no record of the registry.
C14_AbortSignalsTransport ==
  /\ [](abortedInFlight => abortSignals > 0)
  /\ [][naborts' # naborts => files' = files]_vars

\* The identifiers of the records of the list that have one.
ProjectedIds(list) == {list[i].file_id : i \in 1..Len(list)} \ {""}

\* C15: in the map getToolResources returns, no category lists an identifier
\* twice and no category has an empty list; the result is absent exactly when
\* no record has an identifier to project.
C15_ProjectionHasNoDuplicates ==
  projected.called =>
    LET tr == projected.result.map
    IN /\ \A k \in 1..Len(tr) :
            /\ tr[k].file_ids # <<>>
            /\ \A i, j \in 1..Len(tr[k].file_ids) :
                 tr[k].file_ids[i] = tr[k].file_ids[j] => i = j
       /\ \A k, l \in 1..Len(tr) : tr[k].tool = tr[l].tool => k = l
       /\ projected.result.present <=> ProjectedIds(promptFiles) # {}
       /\ ~projected.result.present => tr = <<>>

\* C15, witness: two records of one category with the same identifier have
\* been projected to a map that lists it once.
C15_Witness ==
  /\ projected.called
  /\ Len(promptFiles) = 2
  /\ promptFiles[1].file_id = promptFiles[2].file_id
  /\ promptFiles[1].file_id # ""
  /\ ToolResourceOf(promptFiles[1]) = ToolResourceOf(promptFiles[2])
  /\ projected.result.present
  /\ Len(projected.result.map) = 1
  /\ Len(projected.result.map[1].file_ids) = 1

\* C16: no two records of the registry have the same file_id.
C16_FileIdsUnique ==
  \A i, j \in 1..Len(files) :
    files[i].file.file_id = files[j].file.file_id => i = j

\* C16, witness: two uploads have been acknowledged, so both records hold
\* the identifier the service gave them, under their provisional keys.
C16_Witness ==
  /\ Len(files) = 2
  /\ \A i \in 1..2 :
       /\ files[i].key \in V4Ids
       /\ files[i].file.file_id = ServerId(files[i].key)

\* C17: when the decode of an image completes and the registry holds no
\* record of that file any more, the registry is left as it is.
C17_LateDecodeIsNoOp ==
  [][\A u \in decoding :
       ImageLoaded(u) /\ RecordsOf(files, u) = {} => files' = files]_vars

\* C18: after handleFileRemove(fileId) the registry holds no record whose
\* file_id is fileId, be it a provisional or an authoritative identifier.
C18_RemoveByCurrentId ==
  [][\A fileId \in RemovableIds :
       HandleFileRemove(fileId)
         => \A i \in 1..Len(files') : files'[i].file.file_id # fileId]_vars

\* The identifier-to-category relation of a tool_resources map.
Relation(tr) ==
  {<<PairsOf(tr)[i].tool, PairsOf(tr)[i].id>> : i \in 1..Len(PairsOf(tr))}

\* No category of the map lists an identifier twice.
NoIdTwiceInCategory(tr) ==
  \A k \in 1..Len(tr) : \A i, j \in 1..Len(tr[k].file_ids) :
    tr[k].file_ids[i] = tr[k].file_ids[j] => i = j

\* The registry m projects to the relation of the map tr it was restored
\* from, when the lookup knew every identifier of tr.
ProjectsBack(tr, known, m) ==
  NoIdTwiceInCategory(tr) /\ IdsOf(tr) \subseteq known
    => Relation(getToolResources(MapValues(m)).map) = Relation(tr)

\* C19: when loadFromToolResources has restored a map that lists no
\* identifier twice within a category, with a lookup that knows every
\* identifier, getToolResources returns the identifier-to-category relation
\* of that map.
C19_RestoreThenProjectIsIdentity ==
  [][/\ \A toolResources \in PersistedMaps(PersistedIds, Budget) :
          \A known \in SUBSET (IdsOf(toolResources) \ {UnknownId}) :
            LoadFromToolResources(toolResources, known) /\ ~load'.active
              => ProjectsBack(toolResources, known, files')
     /\ \A created \in BOOLEAN :
          BlobFetched(created) /\ ~load'.active
            => ProjectsBack(load.map, load.known, files')]_vars

\* The category a record is to be projected under: its tag if it has one,
\* image_edit for an image, file_search for every other type.
CategoryOf(file) ==
  CASE file.tool_resource \in Categories -> file.tool_resource
    [] file.tool_resource = NoTool /\ StartsWithImage(file.type) -> image_edit
    [] OTHER -> file_search

\* The categories of the map tr that list the identifier id.
CategoriesListing(tr, id) ==
  {tr[k].tool : k \in {l \in 1..Len(tr) : InSeq(id, tr[l].file_ids)}}

\* C20: getToolResources lists the identifier of every record that has one
\* under the category of that record (its tag, else image_edit for an image,
\* else file_search) and under no category that no record holding that
\* identifier has.
C20_CategoryByTagThenType ==
  projected.called =>
    \A id \in ProjectedIds(promptFiles) :
      CategoriesListing(projected.result.map, id) =
        {CategoryOf(promptFiles[i]) :
           i \in {j \in 1..Len(promptFiles) : promptFiles[j].file_id = id}}

\* C20, witness: a tagged image and an untagged PDF, with different
\* identifiers, have both been projected under file_search.
C20_Witness ==
  /\ projected.called
  /\ Len(promptFiles) = 2
  /\ promptFiles[1].type = "image/png" /\ promptFiles[1].tool_resource = file_search
  /\ promptFiles[2].type = "application/pdf" /\ promptFiles[2].tool_resource = NoTool
  /\ promptFiles[1].file_id # "" /\ promptFiles[2].file_id # ""
  /\ promptFiles[1].file_id # promptFiles[2].file_id
  /\ projected.result.map =
       <<[tool |-> file_search,
          file_ids |-> <<promptFiles[1].file_id, promptFiles[2].file_id>>]>>

\* C21: the object URL created for a picked image is not revoked while the
\* decode of that image is pending, and the step that revokes it is the
\* completion of that decode.
C21_ReleaseAfterDecode ==
  /\ [](\A u \in decoding : \A url \in revoked : url.id # u)
  /\ [][\A url \in revoked' \ revoked :
          url.id \in decoding /\ url.id \notin decoding']_vars

\* C21, witness: the object URL of one image has been revoked after its
\* decode, while the decode of another image is pending.
C21_Witness ==
  /\ BlobUrl(V4(1), 0) \in revoked
  /\ V4(1) \notin decoding
  /\ V4(2) \in decoding
  /\ BlobUrl(V4(2), 0) \in objectUrls \ revoked

\* The identifiers of the pairs a suspended call has still to restore.
TodoIds(todo) == {todo[i].id : i \in 1..Len(todo)}

\* After a createAuthenticatedBlobUrl call that gave no object URL, the map
\* built so far (the registry, when the call has ended) holds the record of
\* the awaited image with its stored path as preview, and a record for
\* every identifier of the persisted map that no pair left to do names.
RestoreWentOn(pair) ==
  LET m == IF load'.active THEN load'.filesMap ELSE files'
      dbFile == FileMap(load.known, selected)[pair.id]
  IN /\ load'.active
          => \E k \in 1..Len(load.todo) : load'.todo = SubSeq(load.todo, k + 1, Len(load.todo))
     /\ \E i \in 1..Len(m) :
          /\ m[i].key = pair.id
          /\ m[i].file = RestoredFile(dbFile, pair.tool, dbFile.filepath,
                                      SourceOf(pair.tool, FileMap(load.known, selected), pair.id))
     /\ \A id \in IdsOf(load.map) \ TodoIds(load'.todo) :
          \E i \in 1..Len(m) : m[i].key = id /\ m[i].file.file_id = id

\* C22: whatever makes createAuthenticatedBlobUrl fail (no user or token, a
\* response that is not ok, a transport error), it returns null, the restore
\* goes on, the image gets its stored path as preview and the other
\* identifiers of the map are restored.
C22_BlobFailureFallsBack ==
  [][\A outcome \in FetchOutcomes \ {"ok"} :
       /\ createAuthenticatedBlobUrl(outcome, OldId, 1) = Undefined
       /\ load.active /\ BlobFetchedWith(outcome)
            => RestoreWentOn(Head(load.todo))]_vars

\* C22, witness: a restore of the stored image and of an unknown identifier
\* has ended after the blob retrieval failed: the image has its stored path
\* as preview and the placeholder follows it.
C22_Witness ==
  /\ ~load.active
  /\ nloads = 2
  /\ Len(files) = 2
  /\ files[1].key = OldId
  /\ files[1].file.preview = PathOf(OldId)
  /\ files[2].file = PlaceholderFile(UnknownId, file_search, vectordb)

\* The decode of every image ends, with img.onload or without it, and the
\* service answers every submission, with a success or with an error.
Fairness ==
  /\ WF_vars(\E u \in decoding : ImageLoaded(u) \/ ImageFailed(u))
  /\ WF_vars(\E form \in uploads : UploadSuccess(form) \/ UploadError(form))

SpecFair == Spec /\ Fairness

\* The file registered as V4(n) has reached an outcome the user can see: its
\* record is at progress 1, or the failure of its upload was notified.
Settled(n) ==
  \/ V4(n) \in failed
  \/ \E i \in RecordsOf(files, V4(n)) : files[i].file.progress = Progress1

\* C23: every attached file that is not removed eventually has its record at
\* progress 1 or a failure notified for it.
C23_EveryFileSettles ==
  \A n \in 1..MaxOps :
    (Len(selected) >= n) ~> (V4(n) \notin expected \/ Settled(n))

====
